---- MODULE Spec2Model ----
(***************************************************************************)
(* State-machine model of src/app.py: a Flask membership application that  *)
(* keeps User and Post items in a key-value store (DynamoDB), with         *)
(* WTForms validation and a Flask-Login session.                           *)
(*                                                                         *)
(* One browser session issues requests one at a time.  Every action is one *)
(* whole request: login_required, form validation, the handler body and    *)
(* every store call it makes.  `req` and `resp` log the request just       *)
(* handled and the response it got, `pre` the store and the session as     *)
(* they were when that request arrived.                                    *)
(*                                                                         *)
(* A second specification, RaceSpec, runs two /signup requests in two      *)
(* workers of the server at once: `inflight` holds each worker's request   *)
(* between the handler's store calls, which are the steps that interleave. *)
(***************************************************************************)
EXTENDS Integers, Sequences, FiniteSets, TLC

VARIABLES users, posts, session, now, req, resp, pre, inflight

vars == <<users, posts, session, now, req, resp, pre, inflight>>

(***************************************************************************)
(* Bounds and input domains                                                *)
(***************************************************************************)
\* The clock stops the model when it reaches MaxTime: every write of a
\* timestamp read from datetime.now() advances it by one.
MaxTime == 3

Anonymous == "anonymous"

AdminId == "u1"
MemberId == "u2"
Member2Id == "u3"
FreshIds == <<"u4", "u5", "u6">>
UnknownUserId == "u9"

PostId1 == "p1"
AbsentPostId == "p9"
PostIds == {PostId1, AbsentPostId}

EmailLowerCase == "a@example.com"
EmailUpperCase == "A@example.com"
EmailMember == "member@example.com"
EmailAdmin == "admin@example.com"
EmailUnknown == "x@example.com"
EmailMalformed == "not-an-email"

Password1 == "password123"
Password2 == "hunter2hunter2"
PasswordShort == "short"

Salts == {"s1"}

(***************************************************************************)
(* Messages (the source's Japanese texts, named)                           *)
(***************************************************************************)
\* '入力されたメールアドレスは既に登録されています。'
MsgAlreadyRegistered == "already registered"
\* 'メールアドレスの確認中にエラーが発生しました。'
MsgEmailCheckError == "error while checking the email address"
\* 'このメールアドレスは既に登録されています。' (flashed by the handler)
MsgDuplicateEmail == "this email address is already registered"
\* 'アカウントが作成されました！ログインしてください。'
MsgAccountCreated == "account created, please log in"
\* '入力データが無効です。'
MsgInvalidData == "input data is invalid"
\* 'システムエラーが発生しました。'
MsgSystemError == "system error"
\* 'アカウント作成中にエラーが発生しました。'
MsgCreateError == "error while creating the account"
\* 'このメールアドレスは登録されていません'
MsgNotRegistered == "this email address is not registered"
\* 'ログイン処理中にエラーが発生しました'
MsgLoginError == "error during login"
\* '先にメールアドレスを確認してください'
MsgCheckEmailFirst == "check the email address first"
\* 'パスワードが正しくありません'
MsgWrongPassword == "password is not correct"
\* 'メールアドレスまたはパスワードが正しくありません。'
MsgInvalidCredentials == "invalid email or password"
\* 'ログインに成功しました。'
MsgLoginSuccess == "logged in"
\* 'このメールアドレスは既に使用されています。'
MsgEmailInUse == "this email address is already in use"
\* 'ユーザーアカウントが更新されました'
MsgAccountUpdated == "user account updated"
\* '投稿が見つかりません'
MsgPostNotFound == "post not found"
\* '編集権限がありません'
MsgNoEditPermission == "no permission to edit"
\* '投稿が更新されました'
MsgPostUpdated == "post updated"

\* 'このページにアクセスするにはログインが必要です。'
MsgLoginRequired == "login required to access this page"

\* Default messages of the WTForms validators.
MsgRequired == "this field is required"
MsgLength == "field length out of range"
MsgEmailFormat == "invalid email address"
MsgNotEqual == "fields must be equal"
MsgInvalidChoice == "not a valid choice"

(***************************************************************************)
(* werkzeug.security                                                       *)
(***************************************************************************)
\* The digest is symbolic: an injective function of salt and password.
Digest(password, salt) == "H(" \o salt \o "," \o password \o ")"

\* generate_password_hash(password, method='pbkdf2:sha256') with the salt it drew:
\* "method$salt$hexdigest".
generate_password_hash(password, salt) ==
    "pbkdf2:sha256$" \o salt \o "$" \o Digest(password, salt)

\* check_password_hash recomputes the digest with the salt embedded in the
\* stored value and compares; a value that is no hash never verifies.
check_password_hash(pwhash, password) ==
    \E salt \in Salts : pwhash = generate_password_hash(password, salt)

(***************************************************************************)
(* The store: users and posts are functions from primary key to item       *)
(***************************************************************************)
\* query(IndexName='email-index', email = :email): equality on the exact string.
QueryByEmail(table, email) == {id \in DOMAIN table : table[id].email = email}

\* str.lower() on the e-mail addresses of the model.
lower(s) == IF s = EmailUpperCase THEN EmailLowerCase ELSE s

User_defaults == [administrator |-> FALSE]

\* Flask-Login's AnonymousUserMixin: current_user when no user is loaded.
AnonymousUser ==
    [user_id |-> Anonymous, email |-> "", password_hash |-> "",
     administrator |-> FALSE, is_authenticated |-> FALSE]

\* load_user: the User built for current_user from the stored item.  The
\* constructor call passes no administrator, so the default (False) stands.
\* None (no such item) leaves the requester anonymous.
load_user(table, user_id) ==
    IF user_id \in DOMAIN table
    THEN [user_id |-> table[user_id].user_id,
          email |-> table[user_id].email,
          password_hash |-> table[user_id].password,
          administrator |-> User_defaults.administrator,
          is_authenticated |-> TRUE]
    ELSE AnonymousUser

\* current_user of a request.
current_user == IF session = Anonymous THEN AnonymousUser ELSE load_user(users, session)

is_authenticated == current_user.is_authenticated

\* User.is_administrator
is_administrator(user) == user.administrator

\* A check_password that only asks whether a hash is stored.
User_check_password_unverified(user, password) == user.password_hash /= ""

\* User.check_password
User_check_password(user, password) == check_password_hash(user.password_hash, password)

(***************************************************************************)
(* WTForms validators                                                      *)
(***************************************************************************)
WellFormedEmails ==
    {EmailLowerCase, EmailUpperCase, EmailMember, EmailAdmin, EmailUnknown}

DataRequired(data) == data /= ""

Length(data, min, max) == Len(data) >= min /\ (max = -1 \/ Len(data) <= max)

Email(data) == data \in WellFormedEmails

OrganizationChoices == {"uguis", "other"}
GenderChoices == {"", "male", "female", "other"}
ValidDates == {"1990-01-01"}

DisplayNameMin == 3
DisplayNameMax == 30
PhoneMin == 10
PhoneMax == 15
PostCodeLen == 7
AddressMax == 100
PasswordMin == 8
NoMax == -1

\* A field whose chain is DataRequired then Length.
RequiredLength(name, data, min, max) ==
    IF ~DataRequired(data) THEN {<<name, MsgRequired>>}
    ELSE IF ~Length(data, min, max) THEN {<<name, MsgLength>>}
    ELSE {}

Required(name, data) == IF ~DataRequired(data) THEN {<<name, MsgRequired>>} ELSE {}

RequiredChoice(name, data, choices) ==
    (IF data \notin choices THEN {<<name, MsgInvalidChoice>>} ELSE {})
    \cup Required(name, data)

\* The fields RegistrationForm and UpdateUserForm declare alike.
ProfileErrors(form) ==
    RequiredChoice("organization", form.organization, OrganizationChoices)
    \cup RequiredLength("display_name", form.display_name, DisplayNameMin, DisplayNameMax)
    \cup Required("user_name", form.user_name)
    \cup Required("furigana", form.furigana)
    \cup RequiredLength("phone", form.phone, PhoneMin, PhoneMax)
    \cup RequiredLength("post_code", form.post_code, PostCodeLen, PostCodeLen)
    \cup RequiredLength("address", form.address, 0, AddressMax)
    \cup RequiredChoice("gender", form.gender, GenderChoices)
    \cup (IF form.date_of_birth \notin ValidDates
          THEN {<<"date_of_birth", MsgRequired>>} ELSE {})

\* RegistrationForm.validate_email: the ValidationError raised inside the try
\* block is an Exception, so the except clause catches it and raises the
\* "error while checking" message in its place.
RegistrationForm_validate_email(table, data) ==
    LET raised == IF QueryByEmail(table, data) /= {} THEN {MsgAlreadyRegistered} ELSE {}
    IN  IF raised /= {} THEN {<<"email", MsgEmailCheckError>>} ELSE {}

\* form.errors of a submitted RegistrationForm.
RegistrationForm_errors(table, form) ==
    ProfileErrors(form)
    \cup (IF ~DataRequired(form.email) THEN {<<"email", MsgRequired>>}
          ELSE (IF ~Email(form.email) THEN {<<"email", MsgEmailFormat>>} ELSE {})
               \cup RegistrationForm_validate_email(table, form.email))
    \cup (IF ~DataRequired(form.email_confirm) THEN {<<"email_confirm", MsgRequired>>}
          ELSE (IF ~Email(form.email_confirm)
                THEN {<<"email_confirm", MsgEmailFormat>>} ELSE {})
               \cup (IF form.email_confirm /= form.email
                     THEN {<<"email_confirm", MsgNotEqual>>} ELSE {}))
    \cup (IF ~DataRequired(form.password) THEN {<<"password", MsgRequired>>}
          ELSE (IF ~Length(form.password, PasswordMin, NoMax)
                THEN {<<"password", MsgLength>>} ELSE {})
               \cup (IF form.password /= form.pass_confirm
                     THEN {<<"password", MsgNotEqual>>} ELSE {}))
    \cup Required("pass_confirm", form.pass_confirm)

(***************************************************************************)
(* Requests and responses                                                  *)
(***************************************************************************)
Response(status, target, flashes, errors) ==
    [status |-> status, target |-> target, flashes |-> flashes, errors |-> errors]

Render(template, flashes, errors) == Response(200, template, flashes, errors)
Redirect(target, flashes) == Response(302, target, flashes, {})
Abort(status) == Response(status, "", {}, {})

\* login_required for an anonymous requester: flash login_message and
\* redirect to login_view.
Unauthorized == Redirect("login", {MsgLoginRequired})

GoodForm(email, password) ==
    [organization |-> "uguis", display_name |-> "Taro", user_name |-> "Yamada Taro",
     furigana |-> "yamada taro", phone |-> "0312345678", post_code |-> "1000001",
     address |-> "Tokyo", email |-> email, email_confirm |-> email,
     password |-> password, pass_confirm |-> password,
     gender |-> "male", date_of_birth |-> "1990-01-01"]

SignupForms ==
    {GoodForm(EmailUpperCase, Password1), GoodForm(EmailUpperCase, Password2),
     GoodForm(EmailUnknown, Password1), GoodForm(EmailLowerCase, Password1),
     GoodForm(EmailMalformed, Password1),
     [GoodForm(EmailUnknown, Password1) EXCEPT !.email_confirm = EmailUpperCase],
     GoodForm(EmailUnknown, PasswordShort),
     [GoodForm(EmailUnknown, Password1) EXCEPT !.pass_confirm = Password2],
     [GoodForm(EmailUnknown, Password1) EXCEPT !.post_code = "100-0001"],
     [GoodForm(EmailUnknown, Password1) EXCEPT !.display_name = ""],
     [GoodForm(EmailMember, Password1) EXCEPT !.phone = "123"]}

\* ClientError codes put_item may raise; "none" is a store that does not fail.
StoreFaults == {"none", "ConditionalCheckFailedException", "ResourceNotFoundException"}

(***************************************************************************)
(* Initial state: a store holding an administrator (made one out of band:  *)
(* no handler sets administrator), two members and one post of a member.   *)
(***************************************************************************)
StoredUser(id, form, pwhash, admin, time) ==
    [user_id |-> id, organization |-> form.organization, address |-> form.address,
     administrator |-> admin, created_at |-> time,
     date_of_birth |-> form.date_of_birth, display_name |-> form.display_name,
     email |-> form.email, furigana |-> form.furigana, gender |-> form.gender,
     password |-> pwhash, phone |-> form.phone, post_code |-> form.post_code,
     updated_at |-> time, user_name |-> form.user_name]

InitUsers ==
    (AdminId :> StoredUser(AdminId, GoodForm(EmailAdmin, Password2),
                           generate_password_hash(Password2, "s1"), TRUE, 0))
    @@ (MemberId :> StoredUser(MemberId, GoodForm(EmailMember, Password1),
                               generate_password_hash(Password1, "s1"), FALSE, 0))
    @@ (Member2Id :> StoredUser(Member2Id, GoodForm(EmailLowerCase, Password1),
                                generate_password_hash(Password1, "s1"), FALSE, 0))

InitPosts ==
    PostId1 :> [post_id |-> PostId1, user_id |-> MemberId, title |-> "old",
                body |-> "old body", category_id |-> "c1",
                created_at |-> 0, updated_at |-> 0]

\* The workers of the server that handle requests at the same time.
Workers == {"w1", "w2"}

\* A worker's request in flight: where the handler is, the form it was sent,
\* the user_id it drew, whether form validation and the handler's own e-mail
\* query passed, and the response once there is one.
Idle ==
    [pc |-> "idle", form |-> GoodForm("", ""), user_id |-> "",
     validated |-> FALSE, checked |-> FALSE, fault |-> "none", resp |-> Abort(0)]

\* The store and the session a request finds.
Snapshot == [users |-> users, posts |-> posts, session |-> session]

Init ==
    /\ users = InitUsers
    /\ posts = InitPosts
    /\ session = Anonymous
    /\ now = 1
    /\ req = [op |-> "none", method |-> "GET"]
    /\ resp = Abort(0)
    /\ pre = [users |-> InitUsers, posts |-> InitPosts, session |-> Anonymous]
    /\ inflight = [w \in Workers |-> Idle]

(***************************************************************************)
(* POST/GET /signup                                                        *)
(***************************************************************************)
\* The flash of the handler's except ClientError clause, by error code.
signup_error_flash(code) ==
    CASE code = "ConditionalCheckFailedException" -> MsgDuplicateEmail
      [] code = "ValidationException" -> MsgInvalidData
      [] code = "ResourceNotFoundException" -> MsgSystemError
      [] OTHER -> MsgCreateError

\* The flashes of the validation-error branch: one per field error,
\* '<label>: <error>'.
signup_error_flashes(errors) == {e[1] \o ": " \o e[2] : e \in errors}

\* uuid.uuid4(): an identifier no item has.  Identifiers are opaque to every
\* handler, so the model draws the unused ones in a fixed order.
uuid4(table) ==
    {FreshIds[i] : i \in {j \in DOMAIN FreshIds :
                            /\ FreshIds[j] \notin DOMAIN table
                            /\ \A k \in 1..(j - 1) : FreshIds[k] \in DOMAIN table}}

\* A handler that stores the submitted password itself.
signup_plain_password(form, salt) == form.password

\* hashed_password: what the handler stores as "password".
signup_hashed_password(form, salt) == generate_password_hash(form.password, salt)

\* A put_item that stores nothing when an item already has the e-mail.
put_item_unless_email_held(table, item) ==
    IF QueryByEmail(table, item.email) /= {} THEN table
    ELSE [k \in DOMAIN table \cup {item.user_id} |->
            IF k = item.user_id THEN item ELSE table[k]]

\* put_item(Item) without a ConditionExpression: the item is stored under its
\* key, whatever the table holds.
put_item(table, item) ==
    [k \in DOMAIN table \cup {item.user_id} |->
        IF k = item.user_id THEN item ELSE table[k]]

\* A validate_on_submit that does not look at the errors.
validate_on_submit_unchecked(method, errors) == method = "POST"

\* form.validate_on_submit(): the request is a POST and validation found no
\* error.
validate_on_submit(method, errors) == method = "POST" /\ errors = {}

signup(method, form, fault, salt) ==
    LET errors == IF method = "POST" THEN RegistrationForm_errors(users, form) ELSE {}
        valid == validate_on_submit(method, errors)
        email_check == QueryByEmail(users, form.email)
        hashed_password == signup_hashed_password(form, salt)
    IN
    /\ pre' = Snapshot
    /\ req' = [op |-> "signup", method |-> method, form |-> form, fault |-> fault]
    /\ UNCHANGED <<posts, session, inflight>>
    /\ IF ~valid
       THEN /\ fault = "none"
            /\ resp' = Render("signup.html", signup_error_flashes(errors), errors)
            /\ UNCHANGED <<users, now>>
       ELSE IF email_check /= {}
       THEN /\ fault = "none"
            /\ resp' = Redirect("signup", {MsgDuplicateEmail})
            /\ UNCHANGED <<users, now>>
       ELSE IF fault /= "none"
       THEN /\ resp' = Redirect("signup", {signup_error_flash(fault)})
            /\ UNCHANGED <<users, now>>
       ELSE /\ now < MaxTime
            /\ now' = now + 1
            /\ \E user_id \in uuid4(users) :
                  users' = put_item(users,
                              StoredUser(user_id, form, hashed_password, FALSE, now))
            /\ resp' = Redirect("login", {MsgAccountCreated})

(***************************************************************************)
(* GET/POST /login                                                         *)
(***************************************************************************)
NoItem == "none"

\* items[0] of a query result, or NoItem when the result is empty.  The
\* index holds no order among items with the same e-mail: any may come first.
FirstItems(items) == IF items = {} THEN {NoItem} ELSE items

LoginEmails ==
    {EmailLowerCase, EmailUpperCase, EmailMember, EmailAdmin, EmailUnknown}
LoginPasswords == {Password1, Password2}
LoginForms == [email : LoginEmails, password : LoginPasswords]

\* LoginForm.validate_email, given items[0] of its query: the ValidationError
\* raised for an unknown e-mail is caught by the except clause and replaced.
LoginForm_validate_email(found) ==
    LET raised == IF found = NoItem THEN {MsgNotRegistered} ELSE {}
    IN  IF raised /= {} THEN {<<"email", MsgLoginError>>} ELSE {}

\* self.user after the e-mail field was validated.
LoginForm_user(form, found) == IF DataRequired(form.email) THEN found ELSE NoItem

\* LoginForm.validate_password
LoginForm_validate_password(table, form_user, data) ==
    IF form_user = NoItem THEN {<<"password", MsgCheckEmailFirst>>}
    ELSE IF ~check_password_hash(table[form_user].password, data)
    THEN {<<"password", MsgWrongPassword>>}
    ELSE {}

\* form.errors of a submitted LoginForm; fields validate in declaration order.
LoginForm_errors(table, form, found) ==
    (IF ~DataRequired(form.email) THEN {<<"email", MsgRequired>>}
     ELSE (IF ~Email(form.email) THEN {<<"email", MsgEmailFormat>>} ELSE {})
          \cup LoginForm_validate_email(found))
    \cup (IF ~DataRequired(form.password) THEN {<<"password", MsgRequired>>}
          ELSE LoginForm_validate_password(table, LoginForm_user(form, found),
                                           form.password))

\* The e-mail the handler queries the index with.
login_query_email(form) == lower(form.email)

\* request.host_url: the scheme and host the request came in on.
host_url == "https://example.com/"

\* request.args.get('next'): None when the query string carries none.
NoNext == ""

\* The values of 'next' a caller supplies: none, a path on this site, an
\* absolute URL of this site, this host under the other web scheme, another
\* host, another host without a scheme, and a URL that is no web address.
NextTargets ==
    {NoNext, "/user_maintenance", "https://example.com/user_maintenance",
     "http://example.com/user_maintenance", "https://evil.example/user_maintenance",
     "//evil.example/user_maintenance", "javascript:alert(1)"}

\* The credentials the model submits together with a 'next': those of a
\* member, right and wrong.
NextLoginForms == [email : {EmailMember}, password : LoginPasswords]

\* urllib.parse.urlparse on the URLs of the model: scheme, netloc and path.
urlparse(url) ==
    CASE url = "https://example.com/" ->
           [scheme |-> "https", netloc |-> "example.com", path |-> "/"]
      [] url = "/user_maintenance" ->
           [scheme |-> "", netloc |-> "", path |-> "/user_maintenance"]
      [] url = "https://example.com/user_maintenance" ->
           [scheme |-> "https", netloc |-> "example.com", path |-> "/user_maintenance"]
      [] url = "http://example.com/user_maintenance" ->
           [scheme |-> "http", netloc |-> "example.com", path |-> "/user_maintenance"]
      [] url = "https://evil.example/user_maintenance" ->
           [scheme |-> "https", netloc |-> "evil.example", path |-> "/user_maintenance"]
      [] url = "//evil.example/user_maintenance" ->
           [scheme |-> "", netloc |-> "evil.example", path |-> "/user_maintenance"]
      [] url = "javascript:alert(1)" ->
           [scheme |-> "javascript", netloc |-> "", path |-> "alert(1)"]

\* urllib.parse.urlunparse of a URL with a scheme and a netloc.
urlunparse(parts) == parts.scheme \o "://" \o parts.netloc \o parts.path

\* The schemes urljoin resolves relative references for (uses_relative), as
\* far as the model's URLs have them.
uses_relative == {"http", "https", ""}

\* urllib.parse.urljoin: a URL of another scheme is returned as it is; one
\* with a netloc keeps it and takes the base's scheme; a path (here always an
\* absolute one) is put on the base's scheme and netloc.
urljoin(base, url) ==
    LET b == urlparse(base)
        u == urlparse(url)
        scheme == IF u.scheme = "" THEN b.scheme ELSE u.scheme
    IN  IF scheme /= b.scheme \/ scheme \notin uses_relative THEN url
        ELSE IF u.netloc /= ""
        THEN urlunparse([scheme |-> scheme, netloc |-> u.netloc, path |-> u.path])
        ELSE urlunparse([scheme |-> scheme, netloc |-> b.netloc, path |-> u.path])

\* is_safe_url (defined twice in the source, alike): the joined target has a
\* web scheme and the netloc of the host.
is_safe_url(target) ==
    LET ref_url == urlparse(host_url)
        test_url == urlparse(urljoin(host_url, target))
    IN  test_url.scheme \in {"http", "https"} /\ ref_url.netloc = test_url.netloc

\* url_for('index')
url_for_index == "index"

\* next_page: where a successful login redirects to.
login_next_page(next) ==
    IF next = NoNext \/ ~is_safe_url(next) THEN url_for_index ELSE next

\* The User the handler builds from user_data: no administrator is passed.
login_User(table, user_data) == load_user(table, user_data)

\* The handler as a function of what it reads: the session it leaves and
\* the response it gives.
login_outcome(table, requester, method, form, next, found, user_data) ==
    LET errors == LoginForm_errors(table, form, found)
        stay(response) == [session |-> requester.user_id, resp |-> response]
    IN
    IF requester.is_authenticated
    THEN stay(Redirect("index", {}))
    ELSE IF method = "GET"
    THEN stay(Render("login.html", {}, {}))
    ELSE IF errors /= {}
    THEN stay(Render("login.html", {}, errors))
    ELSE IF user_data = NoItem
    THEN stay(Render("login.html", {MsgInvalidCredentials}, {}))
    ELSE IF User_check_password(login_User(table, user_data), form.password)
    THEN [session |-> login_User(table, user_data).user_id,
          resp |-> Redirect(login_next_page(next), {MsgLoginSuccess})]
    ELSE stay(Render("login.html", {MsgInvalidCredentials}, {}))

login(method, form, next, found, user_data) ==
    LET outcome == login_outcome(users, current_user, method, form, next, found, user_data)
    IN
    /\ found \in FirstItems(QueryByEmail(users, form.email))
    /\ user_data \in FirstItems(QueryByEmail(users, login_query_email(form)))
    /\ pre' = Snapshot
    /\ req' = [op |-> "login", method |-> method, form |-> form, next |-> next]
    /\ UNCHANGED <<users, posts, now, inflight>>
    /\ session' = outcome.session
    /\ resp' = outcome.resp

(***************************************************************************)
(* GET /logout, GET /, GET /user_maintenance, GET /<id>/delete             *)
(***************************************************************************)
\* A logout_user that leaves the binding in place.
logout_user_kept(principal) == principal

\* Flask-Login's logout_user(): the session's binding after it.
logout_user(principal) == Anonymous

logout ==
    /\ pre' = Snapshot
    /\ req' = [op |-> "logout", method |-> "GET"]
    /\ UNCHANGED <<users, posts, now, inflight>>
    /\ IF ~is_authenticated
       THEN resp' = Unauthorized /\ UNCHANGED session
       ELSE session' = logout_user(session) /\ resp' = Redirect("/login", {})

index ==
    /\ pre' = Snapshot
    /\ req' = [op |-> "index", method |-> "GET"]
    /\ UNCHANGED <<users, posts, session, now, inflight>>
    /\ resp' = IF ~is_authenticated THEN Unauthorized ELSE Render("index.html", {}, {})

user_maintenance ==
    /\ pre' = Snapshot
    /\ req' = [op |-> "user_maintenance", method |-> "GET"]
    /\ UNCHANGED <<users, posts, session, now, inflight>>
    /\ resp' = IF ~is_authenticated THEN Unauthorized
               ELSE Render("user_maintenance.html", {}, {})

\* delete() names Post and db, which app.py never defines: the NameError is
\* an unhandled exception of the request.
delete(id) ==
    /\ pre' = Snapshot
    /\ req' = [op |-> "delete", method |-> "GET", id |-> id]
    /\ UNCHANGED <<users, posts, session, now, inflight>>
    /\ resp' = IF ~is_authenticated THEN Unauthorized ELSE Abort(500)

(***************************************************************************)
(* GET/POST /<user_id>/account                                             *)
(***************************************************************************)
\* The positional parameters UpdateUserForm.__init__ requires after self:
\* user_id and dynamodb_table.
UpdateUserForm_required == 2

\* UpdateUserForm(*args): a call with too few positional arguments raises
\* TypeError before any form exists.
UpdateUserForm_init(args) ==
    IF Len(args) < UpdateUserForm_required
    THEN [error |-> "TypeError", id |-> "", table |-> <<>>]
    ELSE [error |-> "none", id |-> args[1], table |-> args[2]]

\* The arguments account() constructs its form with.
account_form_args(user_id) == <<user_id>>

\* UpdateUserForm.validate_email: an item of another user with this e-mail
\* is an error; the user's own item is not.
UpdateUserForm_validate_email(self, data) ==
    IF \E id \in QueryByEmail(self.table, data) : self.table[id].user_id /= self.id
    THEN {<<"email", MsgEmailInUse>>} ELSE {}

\* form.errors of a submitted UpdateUserForm.  Optional() ends the password
\* chain without error when no password was entered.
UpdateUserForm_errors(self, form) ==
    ProfileErrors(form)
    \cup (IF ~DataRequired(form.email) THEN {<<"email", MsgRequired>>}
          ELSE (IF ~Email(form.email) THEN {<<"email", MsgEmailFormat>>} ELSE {})
               \cup UpdateUserForm_validate_email(self, form.email))
    \cup (IF form.password = "" THEN {}
          ELSE (IF ~Length(form.password, PasswordMin, NoMax)
                THEN {<<"password", MsgLength>>} ELSE {})
               \cup (IF form.password /= form.pass_confirm
                     THEN {<<"password", MsgNotEqual>>} ELSE {}))

\* The item after update_item with the handler's SET expression: user_name,
\* email and password when the form carries them, updated_at always.
account_updated_item(item, form, salt, current_time) ==
    [item EXCEPT
       !.user_name = IF form.user_name /= "" THEN form.user_name ELSE @,
       !.email = IF form.email /= "" THEN form.email ELSE @,
       !.password = IF form.password /= ""
                    THEN generate_password_hash(form.password, salt) ELSE @,
       !.updated_at = current_time]

\* The check with its "not" dropped.
account_forbidden_for_admins(item, requester) ==
    item.user_id /= requester.user_id /\ is_administrator(requester)

\* The check before abort(403): neither the target user nor an administrator.
account_forbidden(item, requester) ==
    item.user_id /= requester.user_id /\ ~is_administrator(requester)

\* A submitted UpdateUserForm: the registration fields without email_confirm.
UpdateForm(email, password) ==
    [f \in DOMAIN GoodForm(email, password) \ {"email_confirm"} |->
        IF f = "user_name" THEN "Yamada Jiro" ELSE GoodForm(email, password)[f]]

AccountForms == {UpdateForm(EmailUnknown, ""), UpdateForm(EmailMember, Password2)}

AccountTargets == {AdminId, MemberId, UnknownUserId}

account(method, user_id, form, salt) ==
    LET self == UpdateUserForm_init(account_form_args(user_id))
        errors == UpdateUserForm_errors(self, form)
    IN
    /\ pre' = Snapshot
    /\ req' = [op |-> "account", method |-> method, user_id |-> user_id, form |-> form]
    /\ UNCHANGED <<posts, session, inflight>>
    /\ IF ~is_authenticated
       THEN resp' = Unauthorized /\ UNCHANGED <<users, now>>
       ELSE IF user_id \notin DOMAIN users
       THEN resp' = Abort(404) /\ UNCHANGED <<users, now>>
       ELSE IF account_forbidden(users[user_id], current_user)
       THEN resp' = Abort(403) /\ UNCHANGED <<users, now>>
       ELSE IF self.error /= "none"
       THEN resp' = Abort(500) /\ UNCHANGED <<users, now>>
       ELSE IF validate_on_submit(method, errors)
       THEN /\ now < MaxTime
            /\ now' = now + 1
            /\ users' = [users EXCEPT
                           ![user_id] = account_updated_item(@, form, salt, now)]
            /\ resp' = Redirect("user_maintenance", {MsgAccountUpdated})
       ELSE /\ resp' = Render("account.html", {}, IF method = "POST" THEN errors ELSE {})
            /\ UNCHANGED <<users, now>>

(***************************************************************************)
(* GET/POST /<post_id>/update                                              *)
(***************************************************************************)
\* update() reads app.posts_table_name, which nothing in app.py sets; the
\* table is taken to be configured by init_db, as the Post store of the
\* data model requires.
PostsTableConfigured == TRUE

PostForms == [title : {"", "new"}, body : {"", "new body"}, category_id : {"", "c2"}]

TitleOnlyForm == [title |-> "new", body |-> "", category_id |-> ""]

EmptyPostForm == [title |-> "", body |-> "", category_id |-> ""]

\* The check of the GET branch: neither the post's user_id nor an
\* administrator.  An item without user_id belongs to nobody.
update_forbidden(post, requester) ==
    (IF "user_id" \in DOMAIN post THEN post.user_id ELSE "") /= requester.user_id
    /\ ~is_administrator(requester)

\* A SET expression that assigns title, body and category_id whether or not
\* the form carries them.
update_expression_all(form, current_time) ==
    [a \in {"title", "body", "category_id", "updated_at"} |->
        IF a = "updated_at" THEN current_time ELSE form[a]]

\* The attributes the handler's SET expression assigns: title, body and
\* category_id when the form carries them, updated_at always.
update_expression(form, current_time) ==
    LET supplied == {a \in {"title", "body", "category_id"} : form[a] /= ""}
    IN  [a \in supplied \cup {"updated_at"} |->
            IF a = "updated_at" THEN current_time ELSE form[a]]

\* update_item(Key, SET ...): the item with the key, created when absent,
\* with the assigned attributes overwritten and the others kept.
update_item(table, key_name, key, assignments) ==
    LET old == IF key \in DOMAIN table THEN table[key] ELSE (key_name :> key)
        item == [a \in DOMAIN old \cup DOMAIN assignments |->
                   IF a \in DOMAIN assignments THEN assignments[a] ELSE old[a]]
    IN  [k \in DOMAIN table \cup {key} |-> IF k = key THEN item ELSE table[k]]

update(method, post_id, form) ==
    /\ pre' = Snapshot
    /\ req' = [op |-> "update", method |-> method, post_id |-> post_id, form |-> form]
    /\ UNCHANGED <<users, session, inflight>>
    /\ IF ~is_authenticated
       THEN resp' = Unauthorized /\ UNCHANGED <<posts, now>>
       ELSE IF ~PostsTableConfigured
       THEN resp' = Abort(500) /\ UNCHANGED <<posts, now>>
       ELSE IF method = "GET"
       THEN /\ UNCHANGED <<posts, now>>
            /\ resp' = IF post_id \notin DOMAIN posts
                       THEN Redirect("index", {MsgPostNotFound})
                       ELSE IF update_forbidden(posts[post_id], current_user)
                       THEN Redirect("index", {MsgNoEditPermission})
                       ELSE Render("update.html", {}, {})
       ELSE /\ now < MaxTime
            /\ now' = now + 1
            /\ posts' = update_item(posts, "post_id", post_id, update_expression(form, now))
            /\ resp' = Redirect("index", {MsgPostUpdated})

\* A request is drawn from the input domains.  A GET submits nothing: one
\* fixed form stands for it in the log.
SignupRequest ==
    \E method \in {"GET", "POST"}, form \in SignupForms, fault \in StoreFaults,
       salt \in Salts :
       /\ (method = "GET" => form = GoodForm(EmailLowerCase, Password1))
       /\ signup(method, form, fault, salt)

LoginRequest ==
    \E method \in {"GET", "POST"}, form \in LoginForms, next \in NextTargets :
       /\ (method = "GET" => form = [email |-> EmailUnknown, password |-> Password1])
       /\ (next /= NoNext => method = "POST" /\ form \in NextLoginForms)
       /\ \E found \in FirstItems(QueryByEmail(users, form.email)),
             user_data \in FirstItems(QueryByEmail(users, login_query_email(form))) :
             login(method, form, next, found, user_data)

AccountRequest ==
    \E method \in {"GET", "POST"}, user_id \in AccountTargets,
       form \in AccountForms, salt \in Salts :
       /\ (method = "GET" => form = UpdateForm(EmailUnknown, ""))
       /\ account(method, user_id, form, salt)

UpdateRequest ==
    \E method \in {"GET", "POST"}, post_id \in PostIds, form \in PostForms :
       /\ (method = "GET" => form = EmptyPostForm)
       /\ (method = "POST" /\ post_id = AbsentPostId => form = TitleOnlyForm)
       /\ update(method, post_id, form)

DeleteRequest == delete(1)

Next ==
    \/ SignupRequest
    \/ LoginRequest
    \/ logout
    \/ index
    \/ user_maintenance
    \/ DeleteRequest
    \/ AccountRequest
    \/ UpdateRequest

Spec == Init /\ [][Next]_vars

(***************************************************************************)
(* Two POST /signup requests at once.  Each worker runs the handler of     *)
(* signup; its three store calls (the query of the form validator, the     *)
(* handler's own query and put_item) are separate steps, and the steps of  *)
(* the two workers interleave in any order.                                *)
(***************************************************************************)
RaceForms ==
    {GoodForm(EmailUnknown, Password1), GoodForm(EmailUnknown, Password2),
     GoodForm(EmailUpperCase, Password1), GoodForm(EmailMember, Password1),
     GoodForm(EmailUnknown, PasswordShort)}

\* form.validate_on_submit(): the validators run, validate_email querying
\* the index; errors re-render the form.
signup_validate(w, form) ==
    LET errors == RegistrationForm_errors(users, form)
    IN
    /\ inflight[w].pc = "idle"
    /\ inflight' = [inflight EXCEPT ![w] =
          IF validate_on_submit("POST", errors)
          THEN [@ EXCEPT !.pc = "validated", !.form = form, !.validated = TRUE]
          ELSE [@ EXCEPT !.pc = "done", !.form = form,
                         !.resp = Render("signup.html", signup_error_flashes(errors),
                                         errors)]]
    /\ UNCHANGED <<users, posts, session, now, req, resp, pre>>

\* email_check: the handler's own query of the index before it stores.
signup_email_check(w) ==
    LET email_check == QueryByEmail(users, inflight[w].form.email)
    IN
    /\ inflight[w].pc = "validated"
    /\ inflight' = [inflight EXCEPT ![w] =
          IF email_check /= {}
          THEN [@ EXCEPT !.pc = "done", !.resp = Redirect("signup", {MsgDuplicateEmail})]
          ELSE [@ EXCEPT !.pc = "checked", !.checked = TRUE]]
    /\ UNCHANGED <<users, posts, session, now, req, resp, pre>>

\* put_item and the response after it.  uuid4 values do not collide: the id
\* is one no item has when the item is put, so none another request drew.
signup_put_item(w, fault, salt) ==
    LET form == inflight[w].form
        hashed_password == signup_hashed_password(form, salt)
    IN
    /\ inflight[w].pc = "checked"
    /\ UNCHANGED <<posts, session, req, resp, pre>>
    /\ IF fault /= "none"
       THEN /\ inflight' = [inflight EXCEPT ![w] =
                  [@ EXCEPT !.pc = "done", !.fault = fault,
                            !.resp = Redirect("signup", {signup_error_flash(fault)})]]
            /\ UNCHANGED <<users, now>>
       ELSE /\ now < MaxTime
            /\ now' = now + 1
            /\ \E user_id \in uuid4(users) :
                  /\ users' = put_item(users,
                                StoredUser(user_id, form, hashed_password, FALSE, now))
                  /\ inflight' = [inflight EXCEPT ![w] =
                        [@ EXCEPT !.pc = "done", !.user_id = user_id,
                                  !.resp = Redirect("login", {MsgAccountCreated})]]

RaceValidate == \E w \in Workers, form \in RaceForms : signup_validate(w, form)

RaceEmailCheck == \E w \in Workers : signup_email_check(w)

RacePutItem ==
    \E w \in Workers, fault \in StoreFaults, salt \in Salts : signup_put_item(w, fault, salt)

RaceNext ==
    \/ RaceValidate
    \/ RaceEmailCheck
    \/ RacePutItem

RaceSpec == Init /\ [][RaceNext]_vars

(***************************************************************************)
(* Properties                                                              *)
(***************************************************************************)
\* The users of a table that hold an e-mail address.
Holders(table, email) == {u \in DOMAIN table : table[u].email = email}

\* The request just handled was a POST to /signup.
SignupPosted == req.op = "signup" /\ req.method = "POST"

\* The request just handled was a POST to /login from an anonymous session.
AnonymousLoginPosted ==
    req.op = "login" /\ req.method = "POST" /\ pre.session = Anonymous

\* C1: a register request whose e-mail a stored User already holds fails with
\* the duplicate-email ('already registered') error, and the set of User
\* records is the same after it as before.
C1_DuplicateEmailRejected ==
    (SignupPosted /\ Holders(pre.users, req.form.email) /= {})
    => /\ users = pre.users
       /\ \/ <<"email", MsgAlreadyRegistered>> \in resp.errors
          \/ MsgDuplicateEmail \in resp.flashes

\* C2: a register request with valid fields and an e-mail no stored User
\* holds, when the store does not fail, adds exactly one User record, under a
\* new user_id and with administrator false, whose stored password is a
\* non-empty hash different from the submitted password, and redirects to
\* the login page.
C2_RegistrationSucceedsOnce ==
    (/\ SignupPosted
     /\ RegistrationForm_errors(pre.users, req.form) = {}
     /\ Holders(pre.users, req.form.email) = {}
     /\ req.fault = "none")
    => /\ \E id \in DOMAIN users \ DOMAIN pre.users :
            /\ DOMAIN users = DOMAIN pre.users \cup {id}
            /\ users[id].user_id = id
            /\ users[id].administrator = FALSE
            /\ users[id].email = req.form.email
            /\ users[id].password /= ""
            /\ users[id].password /= req.form.password
            /\ check_password_hash(users[id].password, req.form.password)
       /\ \A u \in DOMAIN pre.users : users[u] = pre.users[u]
       /\ resp.status = 302 /\ resp.target = "login"

C2_Witness ==
    /\ SignupPosted
    /\ req.form = GoodForm(EmailUnknown, Password1)
    /\ resp = Redirect("login", {MsgAccountCreated})
    /\ Cardinality(DOMAIN users) = Cardinality(DOMAIN pre.users) + 1

\* C3: a login request from an anonymous session with a stored User's e-mail
\* exactly as registered and that User's password binds the session to that
\* User and redirects away from /login, whatever the case of the e-mail's
\* letters.
C3_CorrectLoginBinds ==
    \A u \in DOMAIN pre.users :
        (/\ AnonymousLoginPosted
         /\ pre.users[u].email = req.form.email
         /\ check_password_hash(pre.users[u].password, req.form.password))
        => /\ session = u
           /\ resp.status = 302 /\ resp.target /= "login"

\* C4: a login request whose e-mail no stored User holds, or whose password
\* does not verify against the hash of the User holding it, leaves the
\* session anonymous; and whenever a request binds the session to a user, it
\* is a login request whose password verifies against that user's stored hash.
C4_OnlyVerifiedLoginBinds ==
    /\ (/\ AnonymousLoginPosted
        /\ \A u \in Holders(pre.users, req.form.email) :
              ~check_password_hash(pre.users[u].password, req.form.password))
       => session = Anonymous
    /\ (session /= Anonymous /\ session /= pre.session)
       => /\ req.op = "login"
          /\ session \in DOMAIN users
          /\ check_password_hash(users[session].password, req.form.password)

C4_Witness ==
    /\ AnonymousLoginPosted
    /\ req.form = [email |-> EmailMember, password |-> Password2]
    /\ session = Anonymous
    /\ resp.status = 200

\* What a response shows: the flashed messages and the field errors.
Messages(response) == response.flashes \cup {e[2] : e \in response.errors}

\* The responses /login can give an anonymous POST of a form.
LoginResponses(table, form) ==
    {login_outcome(table, AnonymousUser, "POST", form, NoNext, found, user_data).resp :
        found \in FirstItems(QueryByEmail(table, form.email)),
        user_data \in FirstItems(QueryByEmail(table, login_query_email(form)))}

\* A login form with an e-mail some user holds and a password that verifies
\* against no holder's hash.
WrongPassword(table, form) ==
    /\ Holders(table, form.email) /= {}
    /\ \A u \in Holders(table, form.email) :
          ~check_password_hash(table[u].password, form.password)

\* C5: a failed login with an unknown e-mail shows the generic 'invalid email
\* or password' message, and so does a failed login with a known e-mail and
\* a wrong password; the messages of the two responses are the same.
C5_FailuresIndistinguishable ==
    (AnonymousLoginPosted /\ Holders(pre.users, req.form.email) = {})
    => /\ MsgInvalidCredentials \in Messages(resp)
       /\ \A wrong \in LoginForms :
             WrongPassword(pre.users, wrong)
             => \A r \in LoginResponses(pre.users, wrong) :
                   /\ MsgInvalidCredentials \in Messages(r)
                   /\ Messages(r) = Messages(resp)

\* The requester of the request just handled was logged in as a stored user.
RequesterIn(table) == pre.session \in DOMAIN table

\* C6: a request to /<t>/account for an existing user t by a logged-in user
\* other than t whose record has administrator false ends in 403 and leaves
\* t's record as it was.
C6_NonOwnerForbidden ==
    (/\ req.op = "account"
     /\ RequesterIn(pre.users)
     /\ req.user_id \in DOMAIN pre.users
     /\ pre.session /= req.user_id
     /\ ~pre.users[pre.session].administrator)
    => /\ resp.status = 403
       /\ users[req.user_id] = pre.users[req.user_id]

C6_Witness ==
    /\ req.op = "account" /\ req.method = "POST"
    /\ pre.session = Member2Id
    /\ req.user_id = MemberId
    /\ resp.status = 403

\* An edit-member POST whose form passes UpdateUserForm's validation for
\* target t: every field constraint, and no other user holds the e-mail.
ValidEdit(t) ==
    /\ req.op = "account" /\ req.method = "POST"
    /\ req.user_id = t
    /\ t \in DOMAIN pre.users
    /\ UpdateUserForm_errors([error |-> "none", id |-> t, table |-> pre.users],
                             req.form) = {}

\* The fields of the edit form the handler writes when they are not empty.
EditableFields == {"user_name", "email"}

\* C7: a valid edit request to /<t>/account by a logged-in user whose record
\* has administrator true is not answered 403, and the submitted changes are
\* applied to t's record.
C7_AdministratorEdits ==
    \A t \in DOMAIN pre.users :
        (ValidEdit(t) /\ RequesterIn(pre.users) /\ pre.users[pre.session].administrator)
        => /\ resp.status /= 403
           /\ \A f \in EditableFields :
                 req.form[f] /= "" => users[t][f] = req.form[f]

\* C8: an edit-member request of the user on the own record succeeds and
\* changes the fields supplied non-empty and updated_at, and nothing else:
\* user_id, created_at, administrator, the other profile fields, and the
\* password hash when no new password was supplied, stay as they were.
C8_EditChangesSuppliedOnly ==
    \A t \in DOMAIN pre.users :
        (ValidEdit(t) /\ pre.session = t)
        => /\ resp.status = 302
           /\ \A f \in EditableFields :
                 req.form[f] /= "" => users[t][f] = req.form[f]
           /\ users[t].updated_at > pre.users[t].updated_at
           /\ req.form.password = "" => users[t].password = pre.users[t].password
           /\ \A f \in DOMAIN users[t] \ (EditableFields \cup {"password", "updated_at"}) :
                 users[t][f] = pre.users[t][f]

\* The attributes of a stored post.
PostAttributes ==
    {"post_id", "user_id", "title", "body", "category_id", "created_at", "updated_at"}

\* C9: no request to /<p>/update by a logged-in user who is neither the
\* owner of the existing post p nor an administrator changes p's record.
C9_OnlyOwnerOrAdminEditsPost ==
    (/\ req.op = "update"
     /\ RequesterIn(pre.users)
     /\ req.post_id \in DOMAIN pre.posts
     /\ DOMAIN pre.posts[req.post_id] = PostAttributes
     /\ pre.posts[req.post_id].user_id /= pre.session
     /\ ~pre.users[pre.session].administrator)
    => posts[req.post_id] = pre.posts[req.post_id]

\* C10: an edit-post POST by the post's owner overwrites those of title, body
\* and category_id that were supplied non-empty, sets updated_at to a later
\* value and leaves every other attribute of the post as it was.
C10_OwnerUpdateOverwritesSupplied ==
    (/\ req.op = "update" /\ req.method = "POST"
     /\ req.post_id \in DOMAIN pre.posts
     /\ DOMAIN pre.posts[req.post_id] = PostAttributes
     /\ pre.posts[req.post_id].user_id = pre.session)
    => LET old == pre.posts[req.post_id]
           new == posts[req.post_id]
       IN  /\ DOMAIN new = PostAttributes
           /\ \A a \in {"title", "body", "category_id"} :
                 new[a] = IF req.form[a] /= "" THEN req.form[a] ELSE old[a]
           /\ new.updated_at > old.updated_at
           /\ \A a \in {"post_id", "user_id", "created_at"} : new[a] = old[a]
           /\ \A p \in DOMAIN pre.posts \ {req.post_id} : posts[p] = pre.posts[p]

C10_Witness ==
    /\ req.op = "update" /\ req.method = "POST"
    /\ req.post_id = PostId1
    /\ pre.session = MemberId
    /\ req.form = TitleOnlyForm
    /\ posts[PostId1].title = "new"
    /\ posts[PostId1].body = "old body"
    /\ posts[PostId1].category_id = "c1"
    /\ posts[PostId1].updated_at > pre.posts[PostId1].updated_at

\* The 'next' of the request resolved against the site has the site's scheme
\* and the site's network location.
SameOrigin(next) ==
    /\ next /= NoNext
    /\ urlparse(urljoin(host_url, next)).scheme = urlparse(host_url).scheme
    /\ urlparse(urljoin(host_url, next)).netloc = urlparse(host_url).netloc

\* The request just handled was a login that bound the session.
LoginSucceeded == AnonymousLoginPosted /\ session /= Anonymous

\* C11: a successful login redirects to the supplied 'next' only if the
\* scheme and the network location of that target are both those of the
\* site; for every other 'next' (none, another host, another scheme) it
\* redirects to the index page.
C11_NextOnlyIfSameOrigin ==
    LoginSucceeded
    => /\ resp.status = 302
       /\ (req.next /= NoNext /\ resp.target = req.next) => SameOrigin(req.next)
       /\ ~SameOrigin(req.next) => resp.target = url_for_index

\* No two distinct items of a users table have the same e-mail.
EmailsUnique(table) ==
    \A u, v \in DOMAIN table : table[u].email = table[v].email => u = v

\* An edit-member POST by the target user t whose form meets every field
\* constraint but the uniqueness of its e-mail.
OwnEditPosted(t) ==
    /\ req.op = "account" /\ req.method = "POST"
    /\ req.user_id = t
    /\ t \in DOMAIN pre.users
    /\ pre.session = t
    /\ UpdateUserForm_errors([error |-> "none", id |-> t, table |-> pre.users],
                             req.form) \subseteq {<<"email", MsgEmailInUse>>}

\* C12: with requests handled one at a time and a store that starts with no
\* two Users sharing an e-mail, no two distinct User records ever have the
\* same e-mail: registration rejects an e-mail any user holds, and
\* edit-member rejects an e-mail a user other than the edited one holds while
\* it accepts the edited user's own current e-mail.
C12_EmailStaysUnique ==
    /\ EmailsUnique(users)
    /\ (SignupPosted /\ Holders(pre.users, req.form.email) /= {})
       => users = pre.users /\ resp.target /= "login"
    /\ \A t \in DOMAIN pre.users :
          /\ (OwnEditPosted(t) /\ Holders(pre.users, req.form.email) \ {t} /= {})
             => users = pre.users /\ resp.status /= 302
          /\ (OwnEditPosted(t) /\ req.form.email = pre.users[t].email)
             => resp.status = 302 /\ users[t].email = req.form.email

\* C13: the session's principal goes Anonymous -> Authenticated(u) ->
\* Anonymous.  It becomes u only by a login request that succeeds for u; a
\* logout request of an authenticated session leaves it Anonymous; no other
\* request, and no /login request of an authenticated session, changes it.
C13_SessionStateMachine ==
    /\ (pre.session = Anonymous /\ session /= Anonymous)
       => /\ req.op = "login" /\ req.method = "POST"
          /\ resp.status = 302 /\ MsgLoginSuccess \in resp.flashes
          /\ session \in DOMAIN users
          /\ User_check_password(load_user(users, session), req.form.password)
    /\ (req.op = "logout" /\ pre.session /= Anonymous) => session = Anonymous
    /\ pre.session /= Anonymous => session \in {pre.session, Anonymous}
    /\ req.op /= "logout" /\ pre.session /= Anonymous => session = pre.session
    /\ req.op \notin {"login", "logout"} => session = pre.session

C13_Witness ==
    /\ req.op = "logout"
    /\ pre.session = MemberId
    /\ session = Anonymous
    /\ resp = Redirect("/login", {})

\* Worker w's request passed form validation and the handler's e-mail query
\* and its put_item did not fail.
RacePassed(w) ==
    /\ inflight[w].pc = "done"
    /\ inflight[w].validated /\ inflight[w].checked
    /\ inflight[w].fault = "none"

\* C14: of two concurrent register requests each one that passed its
\* uniqueness reads inserts without condition and reports success, so when
\* both passed them for the same fresh e-mail the store holds two User
\* records with that e-mail, each under its own user_id, and neither request
\* reports a duplicate.
C14_ConcurrentInsertsDuplicate ==
    /\ \A w \in Workers :
          RacePassed(w)
          => /\ inflight[w].resp = Redirect("login", {MsgAccountCreated})
             /\ inflight[w].user_id \in DOMAIN users \ DOMAIN InitUsers
             /\ users[inflight[w].user_id].email = inflight[w].form.email
    /\ \A w, v \in Workers :
          (/\ w /= v /\ RacePassed(w) /\ RacePassed(v)
           /\ inflight[w].form.email = inflight[v].form.email)
          => /\ Holders(InitUsers, inflight[w].form.email) = {}
             /\ inflight[w].user_id /= inflight[v].user_id
             /\ Holders(users, inflight[w].form.email)
                   = {inflight[w].user_id, inflight[v].user_id}
             /\ MsgDuplicateEmail \notin inflight[w].resp.flashes
                                          \cup inflight[v].resp.flashes

C14_Witness ==
    /\ \A w \in Workers :
          /\ inflight[w].pc = "done"
          /\ inflight[w].form.email = EmailUnknown
          /\ inflight[w].validated /\ inflight[w].checked
          /\ inflight[w].resp = Redirect("login", {MsgAccountCreated})
    /\ Cardinality(Holders(users, EmailUnknown)) = 2

\* The request just handled was an edit-member POST for a stored user whose
\* form fails UpdateUserForm's validation.
InvalidEditPosted ==
    /\ req.op = "account" /\ req.method = "POST"
    /\ req.user_id \in DOMAIN pre.users
    /\ UpdateUserForm_errors([error |-> "none", id |-> req.user_id,
                              table |-> pre.users], req.form) /= {}

\* C15: when the form of a register or an edit-member request fails
\* validation (a missing or malformed field, an unequal confirmation, an
\* e-mail already held), the handler issues no put or update: the register
\* form is shown again with its field errors, and every stored record is
\* after the request what it was before.
C15_InvalidFormNoMutation ==
    /\ (SignupPosted /\ RegistrationForm_errors(pre.users, req.form) /= {})
       => /\ users = pre.users /\ posts = pre.posts
          /\ resp.status = 200
          /\ resp.errors = RegistrationForm_errors(pre.users, req.form)
    /\ InvalidEditPosted => users = pre.users /\ posts = pre.posts

C15_Witness ==
    /\ SignupPosted
    /\ req.form = [GoodForm(EmailUnknown, Password1) EXCEPT !.pass_confirm = Password2]
    /\ <<"password", MsgNotEqual>> \in resp.errors
    /\ Holders(users, EmailUnknown) = {}
    /\ users = pre.users

\* C16: an edit-post request, GET or POST, of a logged-in user for a post_id
\* with no stored Post ends in a redirect with the not-found message and
\* leaves the post store as it was; the handler never creates a Post.
C16_AbsentPostNeverCreated ==
    (/\ req.op = "update"
     /\ RequesterIn(pre.users)
     /\ req.post_id \notin DOMAIN pre.posts)
    => /\ resp.status = 302
       /\ MsgPostNotFound \in resp.flashes
       /\ posts = pre.posts
====
